---- MODULE Spec2Model ----
(***************************************************************************)
(* A model of the symbol-substitute data generator: one run of             *)
(* examples/generate.py (build the configuration, construct the generator, *)
(* generate the dataset instance by instance, then write it), with the      *)
(* sampler, the colour assignment, the scene renderer and the transition    *)
(* animator of src/generator.py as operators.                               *)
(*                                                                          *)
(* Scaling.  The symbol catalogues are cut to their first entries and the   *)
(* length windows of TaskConfig are shrunk with them, so that every         *)
(* sequence the sampler can draw is enumerated.  The relations the code     *)
(* depends on are kept: the smallest catalogue ("numbers") is not larger    *)
(* than the largest admissible max_sequence_length, every other catalogue   *)
(* is, and min_sequence_length may exceed max_sequence_length.              *)
(*                                                                          *)
(* Values.  None is <<>> for optional tuples and strings-as-tuples, -1 for  *)
(* an unset integer and "" for an unset symbol.  A string built by          *)
(* formatting is the tuple of its parts.                                    *)
(***************************************************************************)
EXTENDS Integers, Sequences, FiniteSets, TLC

VARIABLES
    pc,                  \* position of the run (see the actions)
    config,              \* the TaskConfig (its keyword arguments until validated)
    cv2_available,       \* video_utils.CV2_AVAILABLE of this environment
    video_generator,     \* self.video_generator: <<>> (None) or <<[fps, output_format]>>
    i,                   \* loop index of generate_dataset
    pairs,               \* generate_dataset's list of TaskPair
    seq_length,          \* locals of generate_task_pair ...
    sequence,
    substitute_position,
    old_symbol,
    new_symbol,
    final_sequence,
    color_map,
    first_image,
    final_image,
    frames,              \* local of _generate_video
    video_path,
    anim_args,           \* <<hold_frames, crossfade_frames>> of _create_animation_frames
    rng_log,             \* the calls made on the shared random source, in order
    prev_log,            \* rng_log of an earlier run with the same seed (<<>> if none)
    prev_pairs,          \* the dataset of that earlier run
    run_no,              \* 1, or 2 for the repeated run
    tmp_videos,          \* task ids with a video file in the temporary directory
    j,                   \* loop index of write_dataset
    wstep,               \* position inside write_task_pair
    disk,                \* files written under output_dir: set of <<task_id, file>>
    error                \* <<>> or <<exception type, raising call>>

vars == <<pc, config, cv2_available, video_generator, i, pairs, seq_length, sequence,
          substitute_position, old_symbol, new_symbol, final_sequence, color_map, first_image,
          final_image, frames, video_path, anim_args, rng_log, prev_log, prev_pairs,
          run_no, tmp_videos, j, wstep, disk, error>>

-----------------------------------------------------------------------------
(* Bounds of the model *)

\* num_samples is drawn from 0..MaxSamples
MaxSamples == 2
\* scaled window of min_sequence_length (ge=4, le=9 in the source)
MinLenGe == 1
MinLenLe == 2
\* scaled window of max_sequence_length (ge=5, le=12 in the source)
MaxLenGe == 1
MaxLenLe == 3
\* hold_frames is drawn from 0..MaxHold and crossfade_frames from 0..MaxTrans
\* where _create_animation_frames is checked as a function of them
MaxHold == 2
MaxTrans == 3
\* the alpha formulas are evaluated on their own for every crossfade_frames in
\* 1..MaxTransProbe
MaxTransProbe == 20

(* Program constants *)

DefaultHoldFrames == 5
DefaultCrossfadeFrames == 10
CanvasWidth == 800
CanvasHeight == 200
DefaultSymbolSize == 60
SymbolMargin == 20
DefaultVideoFps == 10
TaskIdWidth == 4
\* the 8-bit alpha of an opaque draw
AlphaMax == 255

-----------------------------------------------------------------------------
(* Small helpers *)

Range(s) == {s[k] : k \in DOMAIN s}

Max2(a, b) == IF a >= b THEN a ELSE b

\* all orderings (sequences without repetition) of the finite set S
RECURSIVE Orderings(_)
Orderings(S) ==
    IF S = {} THEN {<<>>}
    ELSE UNION {{<<x>> \o rest : rest \in Orderings(S \ {x})} : x \in S}

\* all sequences of n distinct elements of the set S
RECURSIVE Arrangements(_, _)
Arrangements(S, n) ==
    IF n = 0 THEN {<<>>}
    ELSE UNION {{<<x>> \o rest : rest \in Arrangements(S \ {x}, n - 1)} : x \in S}

-----------------------------------------------------------------------------
(* Catalogues, palette, prompt templates *)

\* generator.py SYMBOL_SETS, each catalogue cut to its first entries
SYMBOL_SETS ==
    [shapes  |-> <<"circle", "triangle", "square", "star">>,
     letters |-> <<"A", "B", "C", "D">>,
     numbers |-> <<"0", "1">>,
     mixed   |-> <<"circle", "triangle", "square", "star">>]

\* generator.py SYMBOL_COLORS
SYMBOL_COLORS ==
    << <<220, 60, 60>>, <<60, 60, 220>>, <<60, 180, 60>>, <<220, 160, 60>>,
       <<160, 60, 220>>, <<60, 180, 180>>, <<220, 60, 160>>, <<100, 150, 60>>,
       <<220, 120, 60>>, <<80, 80, 200>> >>

\* prompts.py PROMPT_TEMPLATES, each template named by its opening words
PROMPT_TEMPLATES ==
    <<"Substitute symbol", "Replace symbol", "Substitute the symbol", "Replace the symbol">>

\* SYMBOL_SETS.get(config.symbol_set, SYMBOL_SETS["shapes"])
SelectSymbols(symbol_set) ==
    IF symbol_set \in DOMAIN SYMBOL_SETS THEN SYMBOL_SETS[symbol_set]
    ELSE SYMBOL_SETS["shapes"]

-----------------------------------------------------------------------------
(* Configuration *)

\* pydantic's check of the two bounded length fields of TaskConfig
FieldsValid(cfg) ==
    /\ cfg.min_sequence_length >= MinLenGe
    /\ cfg.min_sequence_length <= MinLenLe
    /\ cfg.max_sequence_length >= MaxLenGe
    /\ cfg.max_sequence_length <= MaxLenLe
    /\ cfg.symbol_size >= 40
    /\ cfg.symbol_size <= 100

\* the keyword arguments main() passes to TaskConfig, the other fields at their defaults
TaskConfigOf(n, seed, videos, symbol_set, min_len, max_len) ==
    [num_samples         |-> n,
     domain              |-> "symbol_substitute",
     random_seed         |-> seed,
     image_size          |-> <<CanvasWidth, CanvasHeight>>,
     generate_videos     |-> videos,
     video_fps           |-> DefaultVideoFps,
     min_sequence_length |-> min_len,
     max_sequence_length |-> max_len,
     symbol_set          |-> symbol_set,
     symbol_size         |-> DefaultSymbolSize]

-----------------------------------------------------------------------------
(* Sequence sampler: generate_task_pair, lines 56-70 *)

\* mutant of LengthRange: the upper end is overshot by one
LengthRange_OffByOne(cfg) == cfg.min_sequence_length .. (cfg.max_sequence_length + 1)

\* the values random.randint(min_sequence_length, max_sequence_length) can return;
\* empty when min > max, where randint raises ValueError
LengthRange(cfg) == cfg.min_sequence_length .. cfg.max_sequence_length

\* the values random.sample(symbols, k) can return: k distinct symbols in draw
\* order; empty when k exceeds the catalogue, where sample raises ValueError
SampleOutcomes(symbols, k) ==
    IF k < 0 \/ k > Len(symbols) THEN {}
    ELSE Arrangements(Range(symbols), k)

\* the values random.randint(0, len(sequence) - 1) can return
PositionRange(seq) == 0 .. (Len(seq) - 1)

\* mutant of AvailableSymbols: the filter "if s not in sequence" is dropped
AvailableSymbols_Unfiltered(symbols, seq) == symbols

\* [s for s in self.symbols if s not in sequence]
AvailableSymbols(symbols, seq) ==
    LET NotUsed(s) == s \notin Range(seq) IN SelectSeq(symbols, NotUsed)

\* sequence[:pos] + [new_symbol] + sequence[pos + 1:]   (pos is zero-based)
FinalSequence(seq, pos, sym) ==
    SubSeq(seq, 1, pos) \o <<sym>> \o SubSeq(seq, pos + 2, Len(seq))

-----------------------------------------------------------------------------
(* Colour assignment: lines 72-74 and _create_color_map, lines 99-104 *)

\* set(sequence + [new_symbol])
AllSymbols(seq, sym) == Range(seq) \cup {sym}

\* the orders in which iterating a set of str can yield its elements: the
\* order follows the strings' hashes, which are salted per process
SetIterationOrders(S) == Orderings(S)

\* for i, symbol in enumerate(set(all_symbols)):
\*     color_map[symbol] = SYMBOL_COLORS[i % len(SYMBOL_COLORS)]
\* with order the order in which the set is iterated
CreateColorMap(order) ==
    [s \in Range(order) |->
        LET idx == CHOOSE k \in DOMAIN order : order[k] = s
        IN  SYMBOL_COLORS[((idx - 1) % Len(SYMBOL_COLORS)) + 1]]

EmptyMap == [s \in {} |-> <<0, 0, 0>>]

-----------------------------------------------------------------------------
(* Scene renderer: _render_sequence, _draw_symbol *)

\* draw.textbbox((0, 0), symbol, font=font): <<left, top, right, bottom>> of the
\* glyph at this font size; the widths differ from glyph to glyph
GlyphWidthPct(symbol) ==
    CASE symbol \in {"circle", "square", "A", "D"} -> 80
      [] symbol \in {"triangle", "star", "B", "C"} -> 70
      [] OTHER -> 55

TextBBox(symbol, font_size) ==
    <<0, font_size \div 5, (font_size * GlyphWidthPct(symbol)) \div 100, font_size>>

\* one draw.text call: the glyph, the top-left corner it is drawn at, its
\* colour and its alpha (255 for an opaque RGB fill)
TextOp(symbol, x, y, color, alpha) ==
    [symbol |-> symbol, x |-> x, y |-> y, color |-> color, alpha |-> alpha]

\* _draw_symbol: centre the bounding box's width and height on (x, y)
DrawSymbol(symbol, x, y, size, color) ==
    LET bbox        == TextBBox(symbol, size)
        text_width  == bbox[3] - bbox[1]
        text_height == bbox[4] - bbox[2]
    IN  TextOp(symbol, x - text_width \div 2, y - text_height \div 2, color, 255)

Spacing(cfg) == cfg.symbol_size + SymbolMargin

\* start_x = (width - (len(sequence) * spacing - 20)) // 2
StartX(cfg, len) == (cfg.image_size[1] - (len * Spacing(cfg) - SymbolMargin)) \div 2

CenterY(cfg) == cfg.image_size[2] \div 2

\* mutant of RenderSequence: the palette is indexed by the position in the
\* sequence instead of looked up in the colour map
RenderSequence_ColorByIndex(seq, cm, cfg) ==
    [k \in 1..Len(seq) |->
        DrawSymbol(seq[k], StartX(cfg, Len(seq)) + (k - 1) * Spacing(cfg),
                   CenterY(cfg), cfg.symbol_size,
                   SYMBOL_COLORS[((k - 1) % Len(SYMBOL_COLORS)) + 1])]

\* _render_sequence: an image is the list of the text draws made on its white
\* canvas, in order; the empty sequence gives the blank canvas
RenderSequence(seq, cm, cfg) ==
    [k \in 1..Len(seq) |->
        DrawSymbol(seq[k], StartX(cfg, Len(seq)) + (k - 1) * Spacing(cfg),
                   CenterY(cfg), cfg.symbol_size, cm[seq[k]])]

-----------------------------------------------------------------------------
(* Transition animator: _create_animation_frames, _render_crossfade_frame *)

\* progress = (i + 1) / crossfade_frames is the double nearest to num/den; it
\* is kept as the pair <<num, den>>.

\* The fractions num/den (in lowest terms, den <= 20) at which the double
\* 255 * (1 - progress) falls just below the exact integer 255 * (den - num) / den,
\* so that int() yields one less than the exact floor.
FloatLossFractions ==
    {<<4, 5>>, <<13, 15>>, <<14, 15>>, <<5, 17>>, <<6, 17>>, <<11, 17>>, <<12, 17>>}

FloatLoss(progress) ==
    IF \E f \in FloatLossFractions : progress[1] * f[2] = progress[2] * f[1]
    THEN 1 ELSE 0

\* int(255 * (1 - progress))
OldAlpha(progress) ==
    (255 * (progress[2] - progress[1])) \div progress[2] - FloatLoss(progress)

\* mutant of NewAlpha: the new symbol is given the alpha of a symbol fading out
NewAlpha_FadingOut(progress) == (255 * (progress[2] - progress[1])) \div progress[2]

\* int(255 * progress)
NewAlpha(progress) == (255 * progress[1]) \div progress[2]

\* The two text draws on the RGBA overlay at the substituted position.
OverlayOps(symbol, sym, x, cm, progress, cfg) ==
    LET size     == cfg.symbol_size
        old_bbox == TextBBox(symbol, size)
        new_bbox == TextBBox(sym, size)
        old_x    == x - (old_bbox[3] - old_bbox[1]) \div 2
        old_y    == CenterY(cfg) - (old_bbox[4] - old_bbox[2]) \div 2
        new_x    == x - (new_bbox[3] - new_bbox[1]) \div 2
        new_y    == CenterY(cfg) - (new_bbox[4] - new_bbox[2]) \div 2
    IN  <<TextOp(symbol, old_x, old_y, cm[symbol], OldAlpha(progress)),
          TextOp(sym, new_x, new_y, cm[sym], NewAlpha(progress))>>

\* The loop "for i, symbol in enumerate(sequence)" of _render_crossfade_frame
\* from index k on.  img is the image the name img is bound to; drawn is the
\* image the ImageDraw object draw was created on (line 220).  At the
\* substituted position img is rebound to new images (convert, alpha_composite,
\* convert: lines 267-269) while draw keeps painting on the first one.
RECURSIVE CrossfadeLoop(_, _, _, _, _, _, _, _, _)
CrossfadeLoop(k, img, drawn, same, seq, sym, pos, cm, pc_cfg) ==
    LET progress == pc_cfg[1]
        cfg      == pc_cfg[2]
        x        == StartX(cfg, Len(seq)) + (k - 1) * Spacing(cfg)
    IN  IF k > Len(seq) THEN img
        ELSE IF k - 1 = pos
        THEN CrossfadeLoop(k + 1, img \o OverlayOps(seq[k], sym, x, cm, progress, cfg),
                           drawn, FALSE, seq, sym, pos, cm, pc_cfg)
        ELSE LET painted == Append(drawn,
                                DrawSymbol(seq[k], x, CenterY(cfg), cfg.symbol_size,
                                           cm[seq[k]]))
             IN  CrossfadeLoop(k + 1, IF same THEN painted ELSE img, painted, same,
                               seq, sym, pos, cm, pc_cfg)

\* _render_crossfade_frame(sequence, new_symbol, substitute_pos, color_map, progress)
RenderCrossfadeFrame(seq, sym, pos, cm, progress, cfg) ==
    CrossfadeLoop(1, <<>>, <<>>, TRUE, seq, sym, pos, cm, <<progress, cfg>>)

\* [image] * n: n references to the one image (none for n <= 0)
Repeat(image, n) == [k \in 1..n |-> image]

\* mutant of CreateAnimationFrames: the closing hold phase is left out
CreateAnimationFrames_NoHoldAfter(initial_seq, final_seq, sym, pos, cm, hold, crossfade, cfg) ==
    Repeat(RenderSequence(initial_seq, cm, cfg), hold)
    \o [k \in 1..crossfade |->
            RenderCrossfadeFrame(initial_seq, sym, pos, cm, <<k, crossfade>>, cfg)]

\* _create_animation_frames(initial_seq, final_seq, old_symbol, new_symbol,
\*                          substitute_pos, color_map, hold_frames, crossfade_frames)
\* range(crossfade_frames) is empty for crossfade_frames <= 0, so that no
\* progress is computed then
CreateAnimationFrames(initial_seq, final_seq, sym, pos, cm, hold, crossfade, cfg) ==
    Repeat(RenderSequence(initial_seq, cm, cfg), hold)
    \o [k \in 1..crossfade |->
            RenderCrossfadeFrame(initial_seq, sym, pos, cm, <<k, crossfade>>, cfg)]
    \o Repeat(RenderSequence(final_seq, cm, cfg), hold)

-----------------------------------------------------------------------------
(* Task identifiers, prompts, task pairs *)

\* the decimal digits of n >= 0, most significant first
RECURSIVE Digits(_)
Digits(n) == IF n < 10 THEN <<n>> ELSE Append(Digits(n \div 10), n % 10)

\* mutant of ZeroPad: the index is cut to its last four digits
ZeroPad_Truncating(n) ==
    LET d == Digits(n % 10000)
    IN  [k \in 1..(TaskIdWidth - Len(d)) |-> 0] \o d

\* format(n, "04d"): the digits, padded on the left with zeros to width 4
ZeroPad(n) ==
    LET d == Digits(n)
    IN  [k \in 1..(Max2(TaskIdWidth, Len(d)) - Len(d)) |-> 0] \o d

\* f"{self.config.domain}_{i:04d}": the domain, "_" and the padded index
TaskId(domain, idx) == <<domain, ZeroPad(idx)>>

\* template.format(old_symbol=..., new_symbol=..., position=...)
FormatPrompt(template, old, sym, position) ==
    [template |-> template, old_symbol |-> old, new_symbol |-> sym,
     position |-> position]

\* temp_dir / f"{task_id}_ground_truth.mp4"
VideoPath(domain, task_id) == <<"tmp", domain, task_id, "ground_truth.mp4">>

TaskPair(task_id, domain, prompt, first, final, video) ==
    [task_id |-> task_id, domain |-> domain, prompt |-> prompt,
     first_image |-> first, final_image |-> final, ground_truth_video |-> video]

-----------------------------------------------------------------------------
(* The shared random source *)

Seeded == config.random_seed # <<>>

\* one call on the random module: its name and what it returned
RngCall(fn, result) == [fn |-> fn, result |-> result]

\* mutant of Draw: the seed does not determine what the calls return
Draw_SeedIgnored(fn, outcomes) == outcomes

\* The results the next call fn may return, out of the results it can return
\* at all.  random.seed(s) puts the generator in the state s determines, so a
\* second run with the same seed returns, call for call, what the first did.
Draw(fn, outcomes) ==
    LET n == Len(rng_log) + 1
    IN  IF /\ run_no = 2
           /\ Seeded
           /\ n <= Len(prev_log)
           /\ prev_log[n].fn = fn
           /\ prev_log[n].result \in outcomes
        THEN {prev_log[n].result}
        ELSE outcomes

-----------------------------------------------------------------------------
(* State *)

\* the locals of generate_task_pair before the call and after its return
NoLocals ==
    /\ seq_length' = -1
    /\ sequence' = <<>>
    /\ substitute_position' = -1
    /\ old_symbol' = ""
    /\ new_symbol' = ""
    /\ final_sequence' = <<>>
    /\ color_map' = EmptyMap
    /\ first_image' = <<>>
    /\ final_image' = <<>>
    /\ frames' = <<>>
    /\ video_path' = <<>>

locals == <<seq_length, sequence, substitute_position, old_symbol, new_symbol, final_sequence,
            color_map, first_image, final_image, frames, video_path>>

replay == <<prev_log, prev_pairs, run_no>>

writer == <<j, wstep, disk>>

\* The keyword arguments the runs are started with.  --symbol-set is one of
\* the catalogue names (argparse choices); "letters" and "mixed" behave as
\* "shapes" does at this scale.  Runs of more than one instance are explored
\* over the smallest catalogue.
SymbolSetInputs == {"shapes", "numbers"}
LengthInputs == (MinLenGe - 1) .. (MaxLenLe + 1)

RunInputs(seeds) ==
    {c \in {TaskConfigOf(n, seed, videos, symbol_set, min_len, max_len) :
                n \in 0..MaxSamples, seed \in seeds, videos \in BOOLEAN,
                symbol_set \in SymbolSetInputs, min_len \in LengthInputs,
                max_len \in LengthInputs} :
        c.num_samples <= 1 \/ c.symbol_set = "numbers"}

\* the state before main() builds the configuration
Start(cfg, cv2) ==
    /\ pc = "main"
    /\ config = cfg
    /\ cv2_available = cv2
    /\ video_generator = <<>>
    /\ i = 0
    /\ pairs = <<>>
    /\ seq_length = -1
    /\ sequence = <<>>
    /\ substitute_position = -1
    /\ old_symbol = ""
    /\ new_symbol = ""
    /\ final_sequence = <<>>
    /\ color_map = EmptyMap
    /\ first_image = <<>>
    /\ final_image = <<>>
    /\ frames = <<>>
    /\ video_path = <<>>
    /\ anim_args = <<DefaultHoldFrames, DefaultCrossfadeFrames>>
    /\ rng_log = <<>>
    /\ tmp_videos = {}
    /\ j = 0
    /\ wstep = "idle"
    /\ disk = {}
    /\ error = <<>>

Init ==
    /\ \E cfg \in RunInputs({<<42>>}), cv2 \in BOOLEAN : Start(cfg, cv2)
    /\ prev_log = <<>>
    /\ prev_pairs = <<>>
    /\ run_no = 1

\* mutant of Raise: the exception is recorded and the loop goes on
Raise_AndContinue(type, call) ==
    /\ pc' = "loop"
    /\ error' = <<type, call>>

\* an exception leaves generate_task_pair, generate_dataset and main
Raise(type, call) ==
    /\ pc' = "aborted"
    /\ error' = <<type, call>>

-----------------------------------------------------------------------------
(* main: configuration and construction *)

\* config = TaskConfig(...): pydantic validates the bounded fields
BuildConfig ==
    /\ pc = "main"
    /\ IF FieldsValid(config)
       THEN /\ pc' = "construct"
            /\ error' = error
       ELSE Raise("ValidationError", "TaskConfig")
    /\ UNCHANGED <<config, cv2_available, video_generator, i, pairs, locals, anim_args,
                   rng_log, replay, tmp_videos, writer>>

\* VideoGenerator(fps, output_format="mp4"): raises ImportError without cv2
NewVideoGenerator(fps, cv2) ==
    [raises |-> ~cv2,
     value  |-> IF cv2 THEN <<[fps |-> fps, output_format |-> "mp4"]>> ELSE <<>>]

\* mutant of MakeVideoGenerator: is_available() is not consulted
MakeVideoGenerator_Unchecked(cfg, cv2) ==
    IF cfg.generate_videos THEN NewVideoGenerator(cfg.video_fps, cv2)
    ELSE [raises |-> FALSE, value |-> <<>>]

\* the video generator SymbolSubstituteGenerator.__init__ ends with:
\*   if config.generate_videos and VideoGenerator.is_available(): VideoGenerator(...)
MakeVideoGenerator(cfg, cv2) ==
    IF cfg.generate_videos /\ cv2 THEN NewVideoGenerator(cfg.video_fps, cv2)
    ELSE [raises |-> FALSE, value |-> <<>>]

\* generator = TaskGenerator(config): BaseGenerator.__init__ seeds the random
\* source, SymbolSubstituteGenerator.__init__ sets up the video generator
ConstructGenerator ==
    /\ pc = "construct"
    /\ LET vg == MakeVideoGenerator(config, cv2_available)
       IN  IF vg.raises
           THEN /\ Raise("ImportError", "VideoGenerator")
                /\ video_generator' = <<>>
           ELSE /\ video_generator' = vg.value
                /\ pc' = "loop"
                /\ error' = error
    /\ rng_log' = <<>>
    /\ i' = 0
    /\ pairs' = <<>>
    /\ UNCHANGED <<config, cv2_available, locals, anim_args, replay, tmp_videos, writer>>

-----------------------------------------------------------------------------
(* generate_dataset and generate_task_pair *)

\* mutant of LoopContinues: the loop ends after its first iteration
LoopContinues_Once(idx, n) == idx < n /\ idx < 1

\* for i in range(self.config.num_samples): the loop goes on while this holds
LoopContinues(idx, n) == idx < n

\* the next iteration: task_id is formed and generate_task_pair is entered
BeginInstance ==
    /\ pc = "loop"
    /\ LoopContinues(i, config.num_samples)
    /\ pc' = "draw_length"
    /\ UNCHANGED <<config, cv2_available, video_generator, i, pairs, locals, anim_args,
                   rng_log, replay, tmp_videos, writer, error>>

\* seq_length = random.randint(min_sequence_length, max_sequence_length)
DrawLength ==
    /\ pc = "draw_length"
    /\ IF LengthRange(config) = {}
       THEN /\ Raise("ValueError", "randint")
            /\ UNCHANGED <<seq_length, rng_log>>
       ELSE /\ \E len \in Draw("randint", {<<n>> : n \in LengthRange(config)}) :
                  /\ seq_length' = len[1]
                  /\ rng_log' = Append(rng_log, RngCall("randint", len))
            /\ pc' = "sample"
            /\ error' = error
    /\ UNCHANGED <<config, cv2_available, video_generator, i, pairs, sequence,
                   substitute_position, old_symbol, new_symbol, final_sequence, color_map,
                   first_image, final_image, frames, video_path, anim_args, replay,
                   tmp_videos, writer>>

\* sequence = random.sample(self.symbols, seq_length)
SampleSequence ==
    /\ pc = "sample"
    /\ LET outcomes == SampleOutcomes(SelectSymbols(config.symbol_set), seq_length)
       IN  IF outcomes = {}
           THEN /\ Raise("ValueError", "sample")
                /\ UNCHANGED <<sequence, rng_log>>
           ELSE /\ \E seq \in Draw("sample", outcomes) :
                      /\ sequence' = seq
                      /\ rng_log' = Append(rng_log, RngCall("sample", seq))
                /\ pc' = "draw_position"
                /\ error' = error
    /\ UNCHANGED <<config, cv2_available, video_generator, i, pairs, seq_length,
                   substitute_position, old_symbol, new_symbol, final_sequence, color_map,
                   first_image, final_image, frames, video_path, anim_args, replay,
                   tmp_videos, writer>>

\* substitute_position = random.randint(0, len(sequence) - 1)
\* old_symbol = sequence[substitute_position]
DrawPosition ==
    /\ pc = "draw_position"
    /\ IF PositionRange(sequence) = {}
       THEN /\ Raise("ValueError", "randint")
            /\ UNCHANGED <<substitute_position, old_symbol, rng_log>>
       ELSE /\ \E pos \in Draw("randint", {<<n>> : n \in PositionRange(sequence)}) :
                  /\ substitute_position' = pos[1]
                  /\ old_symbol' = sequence[pos[1] + 1]
                  /\ rng_log' = Append(rng_log, RngCall("randint", pos))
            /\ pc' = "choose_new"
            /\ error' = error
    /\ UNCHANGED <<config, cv2_available, video_generator, i, pairs, seq_length,
                   sequence, new_symbol, final_sequence, color_map, first_image,
                   final_image, frames, video_path, anim_args, replay, tmp_videos,
                   writer>>

\* new_symbol = random.choice(available_symbols); final_sequence = ...
ChooseNewSymbol ==
    /\ pc = "choose_new"
    /\ LET available == AvailableSymbols(SelectSymbols(config.symbol_set), sequence)
       IN  IF available = <<>>
           THEN /\ Raise("IndexError", "choice")
                /\ UNCHANGED <<new_symbol, final_sequence, rng_log>>
           ELSE /\ \E sym \in Draw("choice", {<<s>> : s \in Range(available)}) :
                      /\ new_symbol' = sym[1]
                      /\ final_sequence' =
                             FinalSequence(sequence, substitute_position, sym[1])
                      /\ rng_log' = Append(rng_log, RngCall("choice", sym))
                /\ pc' = "colors"
                /\ error' = error
    /\ UNCHANGED <<config, cv2_available, video_generator, i, pairs, seq_length,
                   sequence, substitute_position, old_symbol, color_map, first_image,
                   final_image, frames, video_path, anim_args, replay, tmp_videos,
                   writer>>

\* all_symbols = set(sequence + [new_symbol])
\* color_map = self._create_color_map(list(all_symbols))
AssignColors ==
    /\ pc = "colors"
    /\ \E order \in SetIterationOrders(AllSymbols(sequence, new_symbol)) :
           color_map' = CreateColorMap(order)
    /\ pc' = "render"
    /\ UNCHANGED <<config, cv2_available, video_generator, i, pairs, seq_length,
                   sequence, substitute_position, old_symbol, new_symbol, final_sequence,
                   first_image, final_image, frames, video_path, anim_args, rng_log,
                   replay, tmp_videos, writer, error>>

\* first_image = self._render_sequence(sequence, color_map)
\* final_image = self._render_sequence(final_sequence, color_map)
RenderImages ==
    /\ pc = "render"
    /\ first_image' = RenderSequence(sequence, color_map, config)
    /\ final_image' = RenderSequence(final_sequence, color_map, config)
    /\ pc' = "video"
    /\ UNCHANGED <<config, cv2_available, video_generator, i, pairs, seq_length,
                   sequence, substitute_position, old_symbol, new_symbol, final_sequence, color_map,
                   frames, video_path, anim_args, rng_log, replay, tmp_videos, writer,
                   error>>

\* if self.config.generate_videos and self.video_generator:
VideoWanted(cfg, vg) == cfg.generate_videos /\ vg # <<>>

\* video_path = None, and no video is wanted
SkipVideo ==
    /\ pc = "video"
    /\ ~VideoWanted(config, video_generator)
    /\ video_path' = <<>>
    /\ pc' = "prompt"
    /\ UNCHANGED <<config, cv2_available, video_generator, i, pairs, seq_length,
                   sequence, substitute_position, old_symbol, new_symbol, final_sequence, color_map,
                   first_image, final_image, frames, anim_args, rng_log, replay,
                   tmp_videos, writer, error>>

\* _generate_video: frames = self._create_animation_frames(...)
CreateFrames ==
    /\ pc = "video"
    /\ VideoWanted(config, video_generator)
    /\ frames' = CreateAnimationFrames(sequence, final_sequence, new_symbol,
                                       substitute_position, color_map,
                                       anim_args[1], anim_args[2], config)
    /\ pc' = "encode"
    /\ UNCHANGED <<config, cv2_available, video_generator, i, pairs, seq_length,
                   sequence, substitute_position, old_symbol, new_symbol, final_sequence, color_map,
                   first_image, final_image, video_path, anim_args, rng_log, replay,
                   tmp_videos, writer, error>>

\* result = self.video_generator.create_video_from_frames(frames, video_path)
\* return str(result) if result else None
EncodeVideo ==
    /\ pc = "encode"
    /\ IF frames = <<>>
       THEN /\ Raise("ValueError", "create_video_from_frames")
            /\ UNCHANGED <<video_path, tmp_videos>>
       ELSE /\ video_path' = VideoPath(config.domain, TaskId(config.domain, i))
            /\ tmp_videos' = tmp_videos \cup {TaskId(config.domain, i)}
            /\ pc' = "prompt"
            /\ error' = error
    /\ frames' = <<>>
    /\ UNCHANGED <<config, cv2_available, video_generator, i, pairs, seq_length,
                   sequence, substitute_position, old_symbol, new_symbol, final_sequence, color_map,
                   first_image, final_image, anim_args, rng_log, replay, writer>>

\* prompt = get_prompt(old_symbol, new_symbol, substitute_position + 1);
\* the TaskPair is returned, appended to pairs, and the loop index advances
FinishInstance ==
    /\ pc = "prompt"
    /\ \E t \in Draw("choice", {<<k>> : k \in DOMAIN PROMPT_TEMPLATES}) :
          /\ pairs' = Append(pairs,
                 TaskPair(TaskId(config.domain, i), config.domain,
                          FormatPrompt(PROMPT_TEMPLATES[t[1]], old_symbol, new_symbol,
                                       substitute_position + 1),
                          first_image, final_image, video_path))
          /\ rng_log' = Append(rng_log, RngCall("choice", t))
    /\ i' = i + 1
    /\ NoLocals
    /\ pc' = "loop"
    /\ UNCHANGED <<config, cv2_available, video_generator, anim_args, replay,
                   tmp_videos, writer, error>>

\* return pairs; writer = OutputWriter(...); writer.write_dataset(tasks)
ReturnDataset ==
    /\ pc = "loop"
    /\ ~LoopContinues(i, config.num_samples)
    /\ pc' = "write_loop"
    /\ j' = 0
    /\ UNCHANGED <<config, cv2_available, video_generator, i, pairs, locals, anim_args,
                   rng_log, replay, tmp_videos, wstep, disk, error>>

-----------------------------------------------------------------------------
(* OutputWriter.write_dataset and write_task_pair *)

\* the files write_task_pair writes for a task pair, in the order it writes them
FilesOf(pair) ==
    <<"first_frame.png", "final_frame.png", "prompt.txt">>
    \o (IF pair.ground_truth_video # <<>> /\ pair.task_id \in tmp_videos
        THEN <<"ground_truth.mp4">> ELSE <<>>)

\* for pair in task_pairs: write_task_pair(pair) begins with task_dir.mkdir(...)
WriteMkdir ==
    /\ pc = "write_loop"
    /\ wstep = "idle"
    /\ j < Len(pairs)
    /\ disk' = disk \cup {<<pairs[j + 1].task_id, "task_dir">>}
    /\ wstep' = "first_frame.png"
    /\ UNCHANGED <<pc, config, cv2_available, video_generator, i, pairs, locals,
                   anim_args, rng_log, replay, tmp_videos, j, error>>

\* the step of write_task_pair after the file named by wstep
AfterFile(pair, file) ==
    LET files == FilesOf(pair)
        k     == CHOOSE n \in DOMAIN files : files[n] = file
    IN  IF k < Len(files) THEN files[k + 1] ELSE "return"

\* one file of the task pair is written: the two images, the prompt, and the
\* copy of the video when there is one
WriteFile ==
    /\ pc = "write_loop"
    /\ j < Len(pairs)
    /\ wstep \in Range(FilesOf(pairs[j + 1]))
    /\ disk' = disk \cup {<<pairs[j + 1].task_id, wstep>>}
    /\ wstep' = AfterFile(pairs[j + 1], wstep)
    /\ UNCHANGED <<pc, config, cv2_available, video_generator, i, pairs, locals,
                   anim_args, rng_log, replay, tmp_videos, j, error>>

\* return task_dir: write_dataset goes on to the next pair
WriteReturn ==
    /\ pc = "write_loop"
    /\ wstep = "return"
    /\ j' = j + 1
    /\ wstep' = "idle"
    /\ UNCHANGED <<pc, config, cv2_available, video_generator, i, pairs, locals,
                   anim_args, rng_log, replay, tmp_videos, disk, error>>

\* write_dataset returns and main prints its last line
FinishRun ==
    /\ pc = "write_loop"
    /\ wstep = "idle"
    /\ j >= Len(pairs)
    /\ pc' = "done"
    /\ UNCHANGED <<config, cv2_available, video_generator, i, pairs, locals, anim_args,
                   rng_log, replay, tmp_videos, writer, error>>

-----------------------------------------------------------------------------
(* The run *)

Next ==
    \/ BuildConfig
    \/ ConstructGenerator
    \/ BeginInstance
    \/ DrawLength
    \/ SampleSequence
    \/ DrawPosition
    \/ ChooseNewSymbol
    \/ AssignColors
    \/ RenderImages
    \/ SkipVideo
    \/ CreateFrames
    \/ EncodeVideo
    \/ FinishInstance
    \/ ReturnDataset
    \/ WriteMkdir
    \/ WriteFile
    \/ WriteReturn
    \/ FinishRun

Spec == Init /\ [][Next]_vars

-----------------------------------------------------------------------------
(* _create_animation_frames as a function of hold_frames and crossfade_frames *)

\* the frame counts the function is applied to: the small ones and the defaults
AnimInputs ==
    ((0..MaxHold) \X (0..MaxTrans)) \cup {<<DefaultHoldFrames, DefaultCrossfadeFrames>>}

AnimConfig == TaskConfigOf(1, <<42>>, TRUE, "shapes", MinLenGe, MaxLenLe)

\* Any state in which generate_task_pair is about to make the video of a pair
\* it has sampled, coloured and rendered, with the two frame counts free.
InitAnim ==
    /\ \E len \in LengthRange(AnimConfig) :
       \E seq \in SampleOutcomes(SelectSymbols(AnimConfig.symbol_set), len) :
       \E pos \in PositionRange(seq) :
       \E sym \in Range(AvailableSymbols(SelectSymbols(AnimConfig.symbol_set), seq)) :
       \E order \in SetIterationOrders(AllSymbols(seq, sym)) :
          /\ seq_length = len
          /\ sequence = seq
          /\ substitute_position = pos
          /\ old_symbol = seq[pos + 1]
          /\ new_symbol = sym
          /\ final_sequence = FinalSequence(seq, pos, sym)
          /\ color_map = CreateColorMap(order)
          /\ first_image = RenderSequence(seq, CreateColorMap(order), AnimConfig)
          /\ final_image = RenderSequence(FinalSequence(seq, pos, sym),
                                          CreateColorMap(order), AnimConfig)
          /\ rng_log = <<RngCall("randint", <<len>>), RngCall("sample", seq),
                         RngCall("randint", <<pos>>), RngCall("choice", <<sym>>)>>
    /\ anim_args \in AnimInputs
    /\ pc = "video"
    /\ config = AnimConfig
    /\ cv2_available = TRUE
    /\ video_generator = MakeVideoGenerator(AnimConfig, TRUE).value
    /\ i = 0
    /\ pairs = <<>>
    /\ frames = <<>>
    /\ video_path = <<>>
    /\ prev_log = <<>>
    /\ prev_pairs = <<>>
    /\ run_no = 1
    /\ tmp_videos = {}
    /\ j = 0
    /\ wstep = "idle"
    /\ disk = {}
    /\ error = <<>>

NextAnim == CreateFrames

SpecAnim == InitAnim /\ [][NextAnim]_vars

-----------------------------------------------------------------------------
(* Two independent runs with the same configuration *)

SeedInputs == {<<>>, <<42>>}

\* Repeated runs are explored over the smallest catalogue (unseeded: one
\* instance at most), and over single seeded instances of at most two symbols
\* of the other one.
TwoRunInputs ==
    {c \in RunInputs(SeedInputs) :
        \/ /\ c.symbol_set = "numbers"
           /\ c.random_seed = <<>> => c.num_samples <= 1
        \/ /\ c.random_seed # <<>>
           /\ ~c.generate_videos
           /\ c.max_sequence_length <= 2}

InitTwoRuns ==
    /\ \E cfg \in TwoRunInputs, cv2 \in BOOLEAN : Start(cfg, cv2)
    /\ prev_log = <<>>
    /\ prev_pairs = <<>>
    /\ run_no = 1

\* The program is started a second time, in a new process, with the same
\* arguments and a fresh output directory; what the first run drew and
\* produced is kept for comparison.
RunAgain ==
    /\ run_no = 1
    /\ pc \in {"done", "aborted"}
    /\ prev_log' = rng_log
    /\ prev_pairs' = pairs
    /\ run_no' = 2
    /\ pc' = "main"
    /\ video_generator' = <<>>
    /\ i' = 0
    /\ pairs' = <<>>
    /\ NoLocals
    /\ rng_log' = <<>>
    /\ j' = 0
    /\ wstep' = "idle"
    /\ disk' = {}
    /\ error' = <<>>
    /\ UNCHANGED <<config, cv2_available, anim_args, tmp_videos>>

NextTwoRuns ==
    \/ Next
    \/ RunAgain

SpecTwoRuns == InitTwoRuns /\ [][NextTwoRuns]_vars

-----------------------------------------------------------------------------
(* A run in which a write to the output directory can fail *)

\* mkdir, Image.save, write_text or shutil.copy raises OSError (disk full,
\* permissions, ...): write_task_pair has no try/finally and removes nothing,
\* so the exception leaves main with the files written so far in place.
WriteFails ==
    /\ pc = "write_loop"
    /\ j < Len(pairs)
    /\ wstep \in {"idle"} \cup Range(FilesOf(pairs[j + 1]))
    /\ Raise("OSError", IF wstep = "idle" THEN "mkdir" ELSE wstep)
    /\ UNCHANGED <<config, cv2_available, video_generator, i, pairs, locals, anim_args,
                   rng_log, replay, tmp_videos, writer>>

NextWriteFaults ==
    \/ Next
    \/ WriteFails

SpecWriteFaults == Init /\ [][NextWriteFaults]_vars

-----------------------------------------------------------------------------
(* _create_animation_frames as a function of its two sequences *)

\* The after-sequence arguments the function is applied to beside the one
\* generate_task_pair passes: that one cut by its last symbol, and that one
\* with its first symbol repeated at the end.  Each symbol of them has a colour
\* in the colour map of the pair.
AfterArguments(final) ==
    {final, SubSeq(final, 1, Len(final) - 1), Append(final, final[1])}

\* Any call of _create_animation_frames on a sampled and coloured pair, with
\* the after sequence and the two frame counts free.
InitAnimArgs ==
    /\ \E len \in LengthRange(AnimConfig) :
       \E seq \in SampleOutcomes(SelectSymbols(AnimConfig.symbol_set), len) :
       \E pos \in PositionRange(seq) :
       \E sym \in Range(AvailableSymbols(SelectSymbols(AnimConfig.symbol_set), seq)) :
       \E order \in SetIterationOrders(AllSymbols(seq, sym)) :
       \E final \in AfterArguments(FinalSequence(seq, pos, sym)) :
          /\ seq_length = len
          /\ sequence = seq
          /\ substitute_position = pos
          /\ old_symbol = seq[pos + 1]
          /\ new_symbol = sym
          /\ final_sequence = final
          /\ color_map = CreateColorMap(order)
          /\ first_image = RenderSequence(seq, CreateColorMap(order), AnimConfig)
          /\ final_image = RenderSequence(final, CreateColorMap(order), AnimConfig)
          /\ rng_log = <<RngCall("randint", <<len>>), RngCall("sample", seq),
                         RngCall("randint", <<pos>>), RngCall("choice", <<sym>>)>>
    /\ anim_args \in AnimInputs
    /\ pc = "video"
    /\ config = AnimConfig
    /\ cv2_available = TRUE
    /\ video_generator = MakeVideoGenerator(AnimConfig, TRUE).value
    /\ i = 0
    /\ pairs = <<>>
    /\ frames = <<>>
    /\ video_path = <<>>
    /\ prev_log = <<>>
    /\ prev_pairs = <<>>
    /\ run_no = 1
    /\ tmp_videos = {}
    /\ j = 0
    /\ wstep = "idle"
    /\ disk = {}
    /\ error = <<>>

SpecAnimArgs == InitAnimArgs /\ [][NextAnim]_vars

-----------------------------------------------------------------------------
(* Two runs with the same seed, with and without --no-videos *)

\* seeded configurations; the second run is started with generate_videos negated
ToggleInputs == {c \in TwoRunInputs : c.random_seed # <<>>}

InitToggle ==
    /\ \E cfg \in ToggleInputs, cv2 \in BOOLEAN : Start(cfg, cv2)
    /\ prev_log = <<>>
    /\ prev_pairs = <<>>
    /\ run_no = 1

\* The program is started a second time with the same arguments but for
\* --no-videos, which is added or dropped (generate_videos=not args.no_videos).
RunAgainToggled ==
    /\ run_no = 1
    /\ pc \in {"done", "aborted"}
    /\ config' = [config EXCEPT !.generate_videos = ~config.generate_videos]
    /\ prev_log' = rng_log
    /\ prev_pairs' = pairs
    /\ run_no' = 2
    /\ pc' = "main"
    /\ video_generator' = <<>>
    /\ i' = 0
    /\ pairs' = <<>>
    /\ NoLocals
    /\ rng_log' = <<>>
    /\ j' = 0
    /\ wstep' = "idle"
    /\ disk' = {}
    /\ error' = <<>>
    /\ UNCHANGED <<cv2_available, anim_args, tmp_videos>>

NextToggle ==
    \/ Next
    \/ RunAgainToggled

SpecToggle == InitToggle /\ [][NextToggle]_vars

-----------------------------------------------------------------------------
(* _render_sequence over the configurations TaskConfig accepts *)

\* symbol_size: ge=40, le=100
SymbolSizeGe == 40
SymbolSizeLe == 100
\* min_sequence_length ge=4 and max_sequence_length le=12: the lengths
\* random.randint can return for an accepted configuration
SequenceLengthGe == 4
SequenceLengthLe == 12

\* SYMBOL_SETS["letters"], as far as a sequence of twelve and its new symbol need it
LayoutSymbols == <<"A", "B", "C", "D", "E", "F", "G", "H", "I", "J", "K", "L", "M">>

\* TaskConfig(symbol_set="letters", min_sequence_length=4,
\*            max_sequence_length=12, symbol_size=size)
LayoutConfig(size) ==
    [TaskConfigOf(1, <<42>>, FALSE, "letters", SequenceLengthGe, SequenceLengthLe)
        EXCEPT !.symbol_size = size]

\* Any state in which generate_task_pair is about to render a pair of len
\* symbols, for every accepted symbol_size and every length in the window.
InitLayout ==
    /\ \E size \in SymbolSizeGe..SymbolSizeLe, len \in SequenceLengthGe..SequenceLengthLe :
          /\ config = LayoutConfig(size)
          /\ seq_length = len
          /\ sequence = SubSeq(LayoutSymbols, 1, len)
          /\ substitute_position = 0
          /\ old_symbol = LayoutSymbols[1]
          /\ new_symbol = LayoutSymbols[len + 1]
          /\ final_sequence =
                 FinalSequence(SubSeq(LayoutSymbols, 1, len), 0, LayoutSymbols[len + 1])
          /\ color_map = CreateColorMap(SubSeq(LayoutSymbols, 1, len + 1))
          /\ rng_log = <<RngCall("randint", <<len>>),
                         RngCall("sample", SubSeq(LayoutSymbols, 1, len)),
                         RngCall("randint", <<0>>),
                         RngCall("choice", <<LayoutSymbols[len + 1]>>)>>
    /\ pc = "render"
    /\ cv2_available = FALSE
    /\ video_generator = <<>>
    /\ i = 0
    /\ pairs = <<>>
    /\ first_image = <<>>
    /\ final_image = <<>>
    /\ frames = <<>>
    /\ video_path = <<>>
    /\ anim_args = <<DefaultHoldFrames, DefaultCrossfadeFrames>>
    /\ prev_log = <<>>
    /\ prev_pairs = <<>>
    /\ run_no = 1
    /\ tmp_videos = {}
    /\ j = 0
    /\ wstep = "idle"
    /\ disk = {}
    /\ error = <<>>

NextLayout == RenderImages

SpecLayout == InitLayout /\ [][NextLayout]_vars

-----------------------------------------------------------------------------
(* Properties of the sequence sampler *)

Catalogue == SelectSymbols(config.symbol_set)

\* the locals of generate_task_pair hold a complete sequence pair
PairSampled == pc \in {"colors", "render", "video", "encode", "prompt"}

\* C1: every sequence pair generate_task_pair produces has before and after of
\* equal length, a before sequence of distinct symbols, exactly one index at
\* which the two differ, that index being the substitution position, a new
\* symbol that does not occur in before, and old symbol = before[position].
C1_SequencePairInvariants ==
    PairSampled =>
        /\ Len(sequence) = seq_length
        /\ seq_length >= 1
        /\ seq_length < Len(Catalogue)
        /\ Len(final_sequence) = Len(sequence)
        /\ Cardinality(Range(sequence)) = Len(sequence)
        /\ substitute_position \in 0 .. (Len(sequence) - 1)
        /\ {k \in 1..Len(sequence) : sequence[k] # final_sequence[k]}
               = {substitute_position + 1}
        /\ final_sequence[substitute_position + 1] = new_symbol
        /\ new_symbol \notin Range(sequence)
        /\ old_symbol = sequence[substitute_position + 1]

\* a pair of three symbols whose middle one is substituted has been sampled
C1_Witness ==
    /\ pc = "colors"
    /\ Len(sequence) = 3
    /\ substitute_position = 1
    /\ new_symbol # ""

\* the contract of the sampler: min_len <= max_len and N >= max_len + 1
SamplerContract(cfg) ==
    /\ cfg.min_sequence_length <= cfg.max_sequence_length
    /\ Len(SelectSymbols(cfg.symbol_set)) >= cfg.max_sequence_length + 1

SamplerCalls == {"randint", "sample", "choice"}

\* C4: for a configuration TaskConfig accepts with min_len <= max_len and
\* N >= max_len + 1 the sampler never fails: a length can be drawn, that many
\* distinct symbols can be drawn, a position can be drawn, the set of
\* replacement candidates is not empty, and no sampling call raises.
C4_SamplingNeverFails ==
    (FieldsValid(config) /\ SamplerContract(config)) =>
        /\ error = <<>> \/ error[2] \notin SamplerCalls
        /\ pc = "draw_length" => LengthRange(config) # {}
        /\ pc = "sample" => SampleOutcomes(Catalogue, seq_length) # {}
        /\ pc = "draw_position" => PositionRange(sequence) # {}
        /\ pc = "choose_new" => AvailableSymbols(Catalogue, sequence) # <<>>
        /\ PairSampled => seq_length \in
               config.min_sequence_length .. config.max_sequence_length

\* the longest admissible sequence was drawn and a replacement found for it
C4_Witness ==
    /\ SamplerContract(config)
    /\ pc = "colors"
    /\ seq_length = config.max_sequence_length
    /\ seq_length = Len(Catalogue) - 1

-----------------------------------------------------------------------------
(* Properties of the renderer and the animator *)

\* the frames of the cross-fade phase in the list _create_animation_frames returned
CrossfadeFrameIndices == (anim_args[1] + 1) .. (anim_args[1] + anim_args[2])

\* C2: in every cross-fade frame every symbol at an index other than the
\* substitution position is drawn exactly as the static render of the before
\* sequence draws it (same glyph, same place, opaque, its assigned colour).
C2_OtherSymbolsStatic ==
    pc = "encode" =>
        \A k \in CrossfadeFrameIndices :
            \A idx \in 1..Len(sequence) :
                idx # substitute_position + 1 => first_image[idx] \in Range(frames[k])

\* what the code does keep: the symbols before the substitution position
C2_SymbolsBeforePositionStatic ==
    pc = "encode" =>
        \A k \in CrossfadeFrameIndices :
            \A idx \in 1..substitute_position : first_image[idx] \in Range(frames[k])

\* C3: for hold_frames H >= 0 and crossfade_frames T >= 1 the list returned has
\* 2H + T frames: H times the static render of the before sequence, then the T
\* cross-fade frames for i = 0..T-1 in increasing i (frame i has progress
\* (i+1)/T, its new symbol drawn with alpha floor(255 (i+1) / T)), then H times
\* the static render of the after sequence.
C3_FrameListShape ==
    (pc = "encode" /\ anim_args[1] >= 0 /\ anim_args[2] >= 1) =>
        LET H == anim_args[1]
            T == anim_args[2]
        IN  /\ Len(frames) = 2 * H + T
            /\ \A k \in 1..H : frames[k] = first_image
            /\ \A k \in 1..T :
                  /\ frames[H + k] = RenderCrossfadeFrame(sequence, new_symbol,
                                         substitute_position, color_map, <<k, T>>, config)
                  /\ \E op \in Range(frames[H + k]) :
                        op.symbol = new_symbol /\ op.alpha = (255 * k) \div T
            /\ \A k \in 1..H : frames[H + T + k] = final_image

\* the default counts: 20 frames, frames 0..4 alike, frames 15..19 alike
C3_Witness ==
    /\ pc = "encode"
    /\ anim_args = <<DefaultHoldFrames, DefaultCrossfadeFrames>>
    /\ Len(frames) = 20
    /\ \A k \in 1..5 : frames[k] = frames[1] /\ frames[15 + k] = frames[16]
    /\ frames[5] # frames[6]
    /\ frames[15] # frames[16]

\* the colour map of the current instance has been built
ColorsAssigned == pc \in {"render", "video", "encode", "prompt"}

\* the images rendered so far for the current instance
ImagesOfInstance == {first_image, final_image} \cup Range(frames)

\* C6: within one task instance the colour assignment covers exactly the
\* symbols of before and after, gives each one palette colour, and every image
\* rendered for the instance (before-image, after-image, every animation frame)
\* draws each symbol in the colour the one mapping gives it.
C6_OneColorPerSymbol ==
    ColorsAssigned =>
        /\ DOMAIN color_map = Range(sequence) \cup Range(final_sequence)
        /\ \A s \in DOMAIN color_map : color_map[s] \in Range(SYMBOL_COLORS)
        /\ \A img \in ImagesOfInstance :
              \A op \in Range(img) : op.color = color_map[op.symbol]
        /\ pc # "render" => Len(first_image) = Len(sequence)
        /\ pc # "render" => Len(final_image) = Len(sequence)

\* the animation frames of a three-symbol instance exist beside its two images
C6_Witness ==
    /\ pc = "encode"
    /\ Len(sequence) = 3
    /\ Len(frames) = 20
    /\ first_image # <<>>
    /\ final_image # <<>>

-----------------------------------------------------------------------------
(* Properties of a run *)

\* a configuration outside the sampler's contract: the length range is
\* empty, or the catalogue has no more symbols than max_sequence_length
ConfigInvalid(cfg) ==
    \/ cfg.min_sequence_length > cfg.max_sequence_length
    \/ Len(SelectSymbols(cfg.symbol_set)) <= cfg.max_sequence_length

\* random.sample has been called in this run
SymbolsSampled == \E k \in DOMAIN rng_log : rng_log[k].fn = "sample"

\* C5: configuration errors are detected eagerly: when a run fails on a
\* configuration whose length range is invalid or whose catalogue is too small
\* for it, no symbols have been sampled and no task instance has been produced.
C5_ConfigErrorsEager ==
    (ConfigInvalid(config) /\ error # <<>>) =>
        /\ ~SymbolsSampled
        /\ pairs = <<>>

\* a run on such a configuration that produced an instance and failed on the next
C5_InstanceThenFailure ==
    /\ FieldsValid(config)
    /\ ConfigInvalid(config)
    /\ pc = "aborted"
    /\ Len(pairs) >= 1
    /\ error[2] \in SamplerCalls

\* the number a sequence of decimal digits denotes
RECURSIVE DigitsValue(_)
DigitsValue(d) ==
    IF d = <<>> THEN 0
    ELSE 10 * DigitsValue(SubSeq(d, 1, Len(d) - 1)) + d[Len(d)]

\* id is domain, "_" and idx in decimal, zero-padded to at least four digits
WellFormedId(id, domain, idx) ==
    /\ id[1] = domain
    /\ \A k \in DOMAIN id[2] : id[2][k] \in 0..9
    /\ DigitsValue(id[2]) = idx
    /\ Len(id[2]) >= 4
    /\ Len(id[2]) > 4 => id[2][1] # 0

\* indices around every change of the number of digits, beyond 10000 too
IdProbe ==
    (0..12) \cup {99, 100, 101, 999, 1000, 1001, 9999, 10000, 10001, 10010, 19999,
                  20000, 99999, 100000}

IdsWellFormedOnProbe ==
    \A a \in IdProbe : WellFormedId(TaskId("symbol_substitute", a), "symbol_substitute", a)

IdsDistinctOnProbe ==
    \A a, b \in IdProbe :
        a # b => TaskId("symbol_substitute", a) # TaskId("symbol_substitute", b)

\* C8: generate_dataset returns exactly num_samples task instances in
\* increasing index order, the i-th with identifier <domain>_<i zero-padded to
\* at least four digits>; the identifiers are pairwise distinct, also for
\* indices of five and more digits.
C8_DatasetIdentifiers ==
    /\ pc \in {"write_loop", "done"} => Len(pairs) = config.num_samples
    /\ Len(pairs) = i
    /\ \A k \in 1..Len(pairs) :
          /\ WellFormedId(pairs[k].task_id, config.domain, k - 1)
          /\ pairs[k].domain = config.domain
    /\ \A a, b \in 1..Len(pairs) : a # b => pairs[a].task_id # pairs[b].task_id
    /\ IdsWellFormedOnProbe
    /\ IdsDistinctOnProbe

\* a dataset of two instances has been returned
C8_Witness ==
    /\ pc = "write_loop"
    /\ config.num_samples = 2
    /\ Len(pairs) = 2
    /\ pairs[2].task_id = <<"symbol_substitute", <<0, 0, 0, 1>>>>

\* video generation is enabled and the video capability is unavailable
VideoUnavailable == config.generate_videos /\ ~cv2_available

\* C9: when video generation is enabled but the video capability is reported
\* unavailable, then (on a configuration TaskConfig accepts and the sampler's
\* contract admits) constructing the generator and generating raise nothing,
\* every task instance has video reference None with both images and the
\* instruction present, and the run goes on until the requested count is
\* generated and written.
C9_VideoUnavailableDegrades ==
    (VideoUnavailable /\ FieldsValid(config) /\ SamplerContract(config)) =>
        /\ error = <<>>
        /\ pc # "aborted"
        /\ pc \notin {"main", "construct"} => video_generator = <<>>
        /\ pc \notin {"encode"}
        /\ \A k \in 1..Len(pairs) :
              /\ pairs[k].ground_truth_video = <<>>
              /\ pairs[k].first_image # <<>>
              /\ pairs[k].final_image # <<>>
              /\ pairs[k].prompt.template \in Range(PROMPT_TEMPLATES)
        /\ pc = "done" => Len(pairs) = config.num_samples
        /\ pc # "done" => ENABLED Next

\* such a run of two instances has finished
C9_Witness ==
    /\ VideoUnavailable
    /\ pc = "done"
    /\ Len(pairs) = 2
    /\ \A k \in 1..2 : pairs[k].ground_truth_video = <<>>

\* generation of instance k (zero-based) has begun
GenerationBegun(k) ==
    \/ k < i
    \/ k = i /\ pc \in {"draw_length", "sample", "draw_position", "choose_new",
                        "colors", "render", "video", "encode", "prompt"}

\* instance k has been generated in full: its TaskPair is in the dataset and
\* its video, if it has one, is encoded
Generated(k) ==
    /\ k < Len(pairs)
    /\ pairs[k + 1].ground_truth_video # <<>> => pairs[k + 1].task_id \in tmp_videos

\* the persistence collaborator has written every file of instance k
Persisted(k) ==
    /\ k < Len(pairs)
    /\ \A f \in Range(FilesOf(pairs[k + 1])) : <<pairs[k + 1].task_id, f>> \in disk

\* the persistence collaborator has begun to write instance k
WriteBegun(k) ==
    /\ k < Len(pairs)
    /\ <<pairs[k + 1].task_id, "task_dir">> \in disk

\* C10 as stated: instance k is fully completed, its disk write included,
\* before generation of instance k+1 begins.
C10_WrittenBeforeNextBegins ==
    \A k \in 0..MaxSamples : GenerationBegun(k + 1) => Persisted(k)

\* C10 as amended: instances are generated strictly one after another, instance
\* k generated in full (its video encoded) before generation of instance k+1
\* begins; nothing is written before the whole dataset has been generated, and
\* the instances are then written one after another in index order.
C10_GenerateAllThenWrite ==
    /\ \A k \in 0..MaxSamples : GenerationBegun(k + 1) => Generated(k)
    /\ disk # {} =>
          /\ pc \in {"write_loop", "done"}
          /\ Len(pairs) = config.num_samples
          /\ \A k \in 0..(Len(pairs) - 1) : Generated(k)
    /\ \A k \in 0..MaxSamples : WriteBegun(k + 1) => Persisted(k)
    /\ pc = "done" => \A k \in 0..(config.num_samples - 1) : Persisted(k)

\* the second of two instances is being written, after both were generated
C10_Witness ==
    /\ pc = "write_loop"
    /\ Len(pairs) = 2
    /\ j = 1
    /\ wstep = "prompt.txt"
    /\ Persisted(0)

-----------------------------------------------------------------------------
(* Properties of repeated runs *)

\* the second of two runs with the same seed and configuration has finished
SecondSeededRunDone == run_no = 2 /\ Seeded /\ pc = "done"

\* the glyphs an image shows, in drawing order
SymbolsOf(img) == [k \in DOMAIN img |-> img[k].symbol]

\* C7: for a fixed seed and configuration two independent runs produce the same
\* non-video artifacts: instance by instance the same before and after images
\* (sequence and symbol colours) and the same instruction text.
C7_SeededRunsAgree ==
    SecondSeededRunDone =>
        /\ Len(pairs) = Len(prev_pairs)
        /\ \A k \in 1..Len(pairs) :
              /\ pairs[k].prompt = prev_pairs[k].prompt
              /\ pairs[k].first_image = prev_pairs[k].first_image
              /\ pairs[k].final_image = prev_pairs[k].final_image

\* what the seed does fix: the sequences, positions, new symbols and prompts
C7_SeededRunsSampleAlike ==
    SecondSeededRunDone =>
        /\ rng_log = prev_log
        /\ Len(pairs) = Len(prev_pairs)
        /\ \A k \in 1..Len(pairs) :
              /\ pairs[k].prompt = prev_pairs[k].prompt
              /\ SymbolsOf(pairs[k].first_image) = SymbolsOf(prev_pairs[k].first_image)
              /\ SymbolsOf(pairs[k].final_image) = SymbolsOf(prev_pairs[k].final_image)

-----------------------------------------------------------------------------
(* Properties of the output directory *)

\* the files of instance k (zero-based) present in its output directory
FilesPresent(k) ==
    {f \in Range(FilesOf(pairs[k + 1])) : <<pairs[k + 1].task_id, f>> \in disk}

\* write_task_pair is running on instance k
BeingWritten(k) == pc = "write_loop" /\ j = k /\ wstep # "idle"

\* C11: no partial instance is persisted: once write_task_pair is no longer
\* running on an instance (it has returned, or it has failed at one of its
\* steps), the instance's output directory holds its complete set of files
\* (before-image, after-image, instruction text, the video when present) or
\* none of them.
C11_NoPartialInstance ==
    \A k \in 0..(Len(pairs) - 1) :
        ~BeingWritten(k) =>
            \/ FilesPresent(k) = {}
            \/ FilesPresent(k) = Range(FilesOf(pairs[k + 1]))

\* what the writer does guarantee: an instance it returned from is complete,
\* and an instance it has not started has no file
C11_ReturnedInstancesComplete ==
    \A k \in 0..(Len(pairs) - 1) :
        /\ k < j => FilesPresent(k) = Range(FilesOf(pairs[k + 1]))
        /\ (k > j \/ pc \notin {"write_loop", "done", "aborted"}) => FilesPresent(k) = {}

-----------------------------------------------------------------------------
(* Properties of failure *)

\* C12: fail-fast: an error raised while instance k is generated propagates out
\* of generate_dataset and ends the run: the run is aborted with that error,
\* nothing can happen afterwards (no instance of a greater index is generated),
\* the instances produced are exactly those before k, and no list of instances
\* reaches the caller (nothing is written); a list that is returned holds all
\* num_samples instances with consecutive indices, none skipped.
C12_FailFast ==
    /\ error # <<>> => pc = "aborted"
    /\ pc = "aborted" =>
          /\ error # <<>>
          /\ ~ENABLED Next
          /\ Len(pairs) = i
          /\ i < config.num_samples \/ pairs = <<>>
          /\ j = 0 /\ wstep = "idle" /\ disk = {}
    /\ pc \in {"write_loop", "done"} =>
          /\ error = <<>>
          /\ Len(pairs) = config.num_samples
    /\ \A k \in 1..Len(pairs) : pairs[k].task_id = TaskId(config.domain, k - 1)

\* the first of two requested instances failed in the sampler; the second was
\* never begun
C12_Witness ==
    /\ pc = "aborted"
    /\ error[2] \in SamplerCalls
    /\ config.num_samples = 2
    /\ i = 0
    /\ pairs = <<>>

-----------------------------------------------------------------------------
(* Properties of the animator's failure cases *)

\* _create_animation_frames has been called and has returned or raised
AnimatorCalled == pc \in {"encode", "aborted"}

\* C13: the animator fails (raises an error and returns no frame list)
\* whenever the transition-frame count T is less than 1, in particular for
\* T = 0.
C13_FailsWithoutTransitionFrames ==
    (AnimatorCalled /\ anim_args[2] < 1) =>
        /\ error # <<>>
        /\ frames = <<>>

\* what the code does for T < 1: it raises nothing and returns the two hold
\* phases back to back, 2H frames
C13_ReturnsHoldsOnly ==
    (AnimatorCalled /\ anim_args[2] < 1) =>
        /\ error = <<>>
        /\ pc = "encode"
        /\ frames = Repeat(first_image, anim_args[1]) \o Repeat(final_image, anim_args[1])

\* C14: the animator fails with an internal consistency error whenever the
\* before and after sequences passed to it have different lengths; it never
\* returns a frame list for such inputs (stated for the frame counts T >= 1,
\* for which the animator is otherwise defined).
C14_FailsOnLengthMismatch ==
    (AnimatorCalled /\ anim_args[2] >= 1 /\ Len(sequence) # Len(final_sequence)) =>
        /\ error # <<>>
        /\ pc = "aborted"
        /\ frames = <<>>

\* what the code does with sequences of different lengths: it raises nothing
\* and returns the full list, the closing hold showing the after sequence as given
C14_MismatchReturnsFrames ==
    (AnimatorCalled /\ anim_args[2] >= 1 /\ Len(sequence) # Len(final_sequence)) =>
        /\ error = <<>>
        /\ pc = "encode"
        /\ Len(frames) = 2 * anim_args[1] + anim_args[2]
        /\ \A k \in 1..anim_args[1] :
              Len(frames[Len(frames) - anim_args[1] + k]) = Len(final_sequence)

-----------------------------------------------------------------------------
(* Properties of the cross-fade alphas *)

\* the alpha with which a cross-fade frame draws the new and the old symbol
NewAlphaOf(frame) == (CHOOSE op \in Range(frame) : op.symbol = new_symbol).alpha

OldAlphaOf(frame) == (CHOOSE op \in Range(frame) : op.symbol = old_symbol).alpha

\* the cross-fade frames but the last one, as indices into frames
CrossfadeSteps == {k \in CrossfadeFrameIndices : k + 1 \in CrossfadeFrameIndices}

\* over every T in 1..MaxTransProbe both alphas are monotone in i
AlphasMonotoneOnProbe ==
    \A T \in 1..MaxTransProbe : \A n \in 1..(T - 1) :
        /\ NewAlpha(<<n, T>>) <= NewAlpha(<<n + 1, T>>)
        /\ OldAlpha(<<n, T>>) >= OldAlpha(<<n + 1, T>>)

\* over every T in 1..255 the new-symbol alpha grows from each frame to the next
NewAlphaStrictOnProbe ==
    \A T \in 1..AlphaMax : \A n \in 1..(T - 1) :
        NewAlpha(<<n, T>>) < NewAlpha(<<n + 1, T>>)

\* C15: across the T cross-fade frames the new-symbol alpha is monotonically
\* non-decreasing in i and the old-symbol alpha monotonically non-increasing;
\* for the default T = 10, and every T <= 255, the new-symbol alpha is strictly
\* increasing from frame to frame.
C15_AlphasMonotone ==
    /\ pc = "encode" =>
          \A k \in CrossfadeSteps :
              /\ NewAlphaOf(frames[k]) < NewAlphaOf(frames[k + 1])
              /\ OldAlphaOf(frames[k]) >= OldAlphaOf(frames[k + 1])
    /\ AlphasMonotoneOnProbe
    /\ NewAlphaStrictOnProbe

\* the ten default cross-fade frames: the new symbol goes from 25 to 255, the
\* old one is at 50 in the eighth frame and at 0 in the last
C15_Witness ==
    /\ pc = "encode"
    /\ anim_args = <<DefaultHoldFrames, DefaultCrossfadeFrames>>
    /\ NewAlphaOf(frames[6]) = 25
    /\ NewAlphaOf(frames[15]) = 255
    /\ OldAlphaOf(frames[13]) = 50
    /\ OldAlphaOf(frames[15]) = 0

\* C16: for every T >= 1 the last cross-fade frame (i = T-1, progress 1) draws
\* the old symbol with alpha 0 and the new symbol with alpha 255; in every
\* cross-fade frame both alphas lie in 0..255 and equal floor(255 (1 - p)) and
\* floor(255 p) for p = (i+1)/T, and no cross-fade frame has progress 0.
C16_AlphasAreFloors ==
    (pc = "encode" /\ anim_args[2] >= 1) =>
        LET H == anim_args[1]
            T == anim_args[2]
        IN  /\ OldAlphaOf(frames[H + T]) = 0
            /\ NewAlphaOf(frames[H + T]) = AlphaMax
            /\ \A n \in 1..T :
                  /\ OldAlphaOf(frames[H + n]) \in 0..AlphaMax
                  /\ NewAlphaOf(frames[H + n]) \in 0..AlphaMax
                  /\ NewAlphaOf(frames[H + n]) = (AlphaMax * n) \div T
                  /\ OldAlphaOf(frames[H + n]) = (AlphaMax * (T - n)) \div T
                  /\ NewAlphaOf(frames[H + n]) > 0

\* what the code does keep: the end values, the range, the new alpha; the old
\* alpha is the floor or one below it
C16_OldAlphaWithinOneOfFloor ==
    (pc = "encode" /\ anim_args[2] >= 1) =>
        LET H == anim_args[1]
            T == anim_args[2]
        IN  /\ OldAlphaOf(frames[H + T]) = 0
            /\ NewAlphaOf(frames[H + T]) = AlphaMax
            /\ \A n \in 1..T :
                  /\ OldAlphaOf(frames[H + n]) \in 0..AlphaMax
                  /\ NewAlphaOf(frames[H + n]) = (AlphaMax * n) \div T
                  /\ NewAlphaOf(frames[H + n]) > 0
                  /\ (AlphaMax * (T - n)) \div T - OldAlphaOf(frames[H + n]) \in {0, 1}

-----------------------------------------------------------------------------
(* Properties of the layout *)

\* the before and after images of the current instance have been rendered
ImagesRendered == pc \in {"video", "encode", "prompt"}

\* the cell of the k-th symbol (k from 1) in a row of len symbols: symbol_size
\* wide, the cells symbol_size + 20 apart, the row starting at start_x
CellLeft(k, len) == StartX(config, len) + (k - 1) * Spacing(config)

CellRight(k, len) == CellLeft(k, len) + config.symbol_size

\* the point on which a text draw has centred the glyph's bounding box
DrawCenter(op) ==
    LET bbox == TextBBox(op.symbol, config.symbol_size)
    IN  <<op.x + (bbox[3] - bbox[1]) \div 2, op.y + (bbox[4] - bbox[2]) \div 2>>

Dist(a, b) == IF a >= b THEN a - b ELSE b - a

\* C17: in a static scene of L >= 1 symbols the row is horizontally centred on
\* the canvas: each glyph's centre lies at the centre of its own cell (up to a
\* pixel of rounding), the midpoint between the left edge of the first cell and
\* the right edge of the last is canvas_width / 2 (up to a pixel), and every
\* glyph's vertical centre is canvas_height / 2.
C17_GlyphsCentredInCells ==
    ImagesRendered =>
        \A img \in {first_image, final_image} :
            /\ Dist(CellLeft(1, Len(img)) + CellRight(Len(img), Len(img)),
                    config.image_size[1]) <= 2
            /\ \A k \in 1..Len(img) :
                  /\ Dist(2 * DrawCenter(img[k])[1],
                          CellLeft(k, Len(img)) + CellRight(k, Len(img))) <= 2
                  /\ DrawCenter(img[k])[2] = config.image_size[2] \div 2

\* what the code does: the cells are centred on the canvas and the glyphs are
\* vertically centred, but each glyph is centred on the left edge of its cell
C17_GlyphsCentredOnCellLeftEdge ==
    ImagesRendered =>
        \A img \in {first_image, final_image} :
            /\ Dist(CellLeft(1, Len(img)) + CellRight(Len(img), Len(img)),
                    config.image_size[1]) <= 2
            /\ \A k \in 1..Len(img) :
                  /\ DrawCenter(img[k])[1] = CellLeft(k, Len(img))
                  /\ DrawCenter(img[k])[2] = config.image_size[2] \div 2

-----------------------------------------------------------------------------
(* Properties of the random source *)

\* the calls on the random module one instance makes, in order: length, before
\* sequence, position, new symbol, prompt template
CallOrder == <<"randint", "sample", "randint", "choice", "choice">>

\* the number of calls the current instance has made so far
CallsOfInstance ==
    CASE pc = "sample" -> 1
      [] pc = "draw_position" -> 2
      [] pc = "choose_new" -> 3
      [] pc \in {"colors", "render", "video", "encode", "prompt"} -> 4
      [] OTHER -> 0

\* the video flag differs between the two runs and the first one made a video
\* for each instance exactly when the second one did not
VideoToggled(k) ==
    (pairs[k].ground_truth_video = <<>>) # (prev_pairs[k].ground_truth_video = <<>>)

\* C18: per instance the random source is consumed in a fixed order (length,
\* before sequence, position, new symbol, prompt variant) and rendering,
\* animation and video encoding consume none of it; hence for the same seed
\* and otherwise identical configuration the before and after sequences,
\* positions, new symbols and instruction texts of every instance are the same
\* whether video generation is enabled or disabled.
C18_SamplingIndependentOfVideo ==
    /\ \A n \in DOMAIN rng_log : rng_log[n].fn = CallOrder[((n - 1) % Len(CallOrder)) + 1]
    /\ pc \notin {"main", "construct", "aborted"} =>
          Len(rng_log) = Len(CallOrder) * Len(pairs) + CallsOfInstance
    /\ SecondSeededRunDone =>
          /\ rng_log = prev_log
          /\ Len(pairs) = Len(prev_pairs)
          /\ \A k \in 1..Len(pairs) :
                /\ pairs[k].prompt = prev_pairs[k].prompt
                /\ SymbolsOf(pairs[k].first_image) = SymbolsOf(prev_pairs[k].first_image)
                /\ SymbolsOf(pairs[k].final_image) = SymbolsOf(prev_pairs[k].final_image)

\* two seeded runs of two instances have finished, the first with a video for
\* each instance and the second with none
C18_Witness ==
    /\ SecondSeededRunDone
    /\ Len(pairs) = 2
    /\ Len(prev_pairs) = 2
    /\ ~config.generate_videos
    /\ \A k \in 1..2 : VideoToggled(k) /\ pairs[k].ground_truth_video = <<>>

\* the width of the row: total_width = len(sequence) * spacing - 20
TotalWidth(cfg, len) == len * Spacing(cfg) - SymbolMargin

\* C19: for every configuration TaskConfig accepts with the default 800-pixel
\* canvas width (symbol_size in 40..100, sequence length in 4..12) the rendered
\* row fits on the canvas: the start offset
\* (canvas_width - (L * (symbol_size + 20) - 20)) // 2 is not negative and no
\* symbol is placed at an x coordinate outside 0..canvas_width.
C19_RowFitsCanvas ==
    ImagesRendered =>
        /\ StartX(config, Len(sequence)) >= 0
        /\ \A img \in {first_image, final_image} :
              \A k \in 1..Len(img) :
                  DrawCenter(img[k])[1] \in 0..config.image_size[1]

\* what the code does keep: a row no wider than the canvas fits; the default
\* symbol_size fits up to ten symbols
C19_NarrowRowFitsCanvas ==
    (ImagesRendered /\ TotalWidth(config, Len(sequence)) <= config.image_size[1]) =>
        /\ StartX(config, Len(sequence)) >= 0
        /\ \A img \in {first_image, final_image} :
              \A k \in 1..Len(img) :
                  DrawCenter(img[k])[1] \in 0..config.image_size[1]

====
